---- MODULE Spec2Model ----
(***************************************************************************)
(* Model of translator.py: the snapshot lifecycle of a Bundle, the two     *)
(* parsers, the reconciliation engine (new_entries and                     *)
(* check_missing_keys_in_other_locales) and the manifest reporter.         *)
(*                                                                         *)
(* Encoding.  A file identifier is the sequence of the tokens of its path, *)
(* <<directory, stem, locale tag, extension>>, so that "contains",         *)
(* "ends with" and "append a suffix" are computed on the name.  The text   *)
(* of a file is the sequence of its entries <<key, value>> in file order   *)
(* (the members of a json object, the key=value lines of a properties      *)
(* file).  A python dict is a sequence of <<key, value>> pairs with        *)
(* distinct keys, in insertion order.  The string f'{key}: {val}' is the   *)
(* pair <<key, val>>.  The dicts keyed by file identifier are functions:   *)
(* the order in which python iterates a set of file names is arbitrary and *)
(* only decides the order of the manifest's lists, which are built here in *)
(* one fixed order.  Blank lines and # comment lines of a properties file, *)
(* which the parser skips, and nested json values are not among the        *)
(* entries.                                                                *)
(***************************************************************************)
EXTENDS Naturals, Sequences, FiniteSets, TLC

\* Longest file text, in entries, of the single-bundle specification.
MaxLen == 2

\* The entries a file text is made of; "" is an empty value.
Lines == {<<"a", "1">>, <<"a", "2">>, <<"b", "2">>, <<"b", "">>}

SeqsUpTo(S, n) == UNION {[1..k -> S] : k \in 0..n}

Contents == SeqsUpTo(Lines, MaxLen)

\* The texts of a default-locale file in the specification of repeated runs.
DefaultContents == {<<>>, <<<<"b", "2">>, <<"a", "1">>>>} \cup {<<l>> : l \in Lines}

\* The texts of the other locale's file.
LocaleContents ==
    {<<>>, <<<<"a", "1">>>>, <<<<"b", "">>>>, <<<<"b", "">>, <<"a", "1">>>>}

Extensions == {"json", "properties"}

VARIABLES disk, config, pc, bundles, idx, additions, missing,
          jsonDict, propsDict, data, stdout, exitMsg

vars == <<disk, config, pc, bundles, idx, additions, missing,
          jsonDict, propsDict, data, stdout, exitMsg>>

----------------------------------------------------------------------------
(* File identifiers *)

ExtTok(extension) ==
    CASE extension = "json" -> ".json"
      [] extension = "properties" -> ".properties"
      [] OTHER -> extension

LocaleTok(default_locale) ==
    CASE default_locale = "en_US" -> "_en_US"
      [] default_locale = "fr" -> "_fr"
      [] OTHER -> default_locale

SnapshotSuffix == ".snapshot"

HasSnapshot(tok) == tok \in {"snapshot", SnapshotSuffix}

EndsWith(file, extension) == Len(file) > 0 /\ file[Len(file)] = ExtTok(extension)

ListDir(d, path) == {f \in DOMAIN d : f[1] = path}

----------------------------------------------------------------------------
(* python dicts *)

DictKeys(d) == {d[i][1] : i \in DOMAIN d}

DictValues(d) == {d[i][2] : i \in DOMAIN d}

DictItems(d) == {d[i] : i \in DOMAIN d}

DictEq(d1, d2) == DictItems(d1) = DictItems(d2)

DictSet(d, k, v) ==
    IF k \in DictKeys(d)
    THEN [i \in DOMAIN d |-> IF d[i][1] = k THEN <<k, v>> ELSE d[i]]
    ELSE Append(d, <<k, v>>)

\* f with f[k] = v, k added to the domain when new.
Put(f, k, v) == [x \in DOMAIN f \cup {k} |-> IF x = k THEN v ELSE f[x]]

----------------------------------------------------------------------------
(* Parsers *)

RECURSIVE JsonLoads(_)
JsonLoads(text) ==
    IF text = <<>> THEN <<>>
    ELSE LET n == Len(text)
         IN  DictSet(JsonLoads(SubSeq(text, 1, n - 1)), text[n][1], text[n][2])

RECURSIVE PropertiesLoad(_)
PropertiesLoad(text) ==
    IF text = <<>> THEN <<>>
    ELSE LET n == Len(text)
             rest == PropertiesLoad(SubSeq(text, 1, n - 1))
         IN  IF text[n][2] # "" THEN DictSet(rest, text[n][1], text[n][2]) ELSE rest

\* JsonParser(files).get_as_dictionary(): the class attribute dict_representation
\* with the entries of `files` (re)parsed.
JsonParser(dict_representation, files, d) ==
    [f \in DOMAIN dict_representation \cup files |->
        IF f \in files THEN JsonLoads(d[f]) ELSE dict_representation[f]]

PropertiesParser(dict_representation, files, d) ==
    [f \in DOMAIN dict_representation \cup files |->
        IF f \in files THEN PropertiesLoad(d[f]) ELSE dict_representation[f]]

----------------------------------------------------------------------------
(* Bundle *)

Bundle(path, extension, files, default_locale) ==
    [path |-> path, extension |-> extension, files |-> files,
     default_locale |-> IF default_locale = "" THEN "en_US" ELSE default_locale]

\* re.match(rf'.*_{default_locale}(?!(.*snapshot)).*', file)
RegexMatch(file, default_locale) ==
    \E i \in DOMAIN file :
        /\ file[i] = LocaleTok(default_locale)
        /\ \A j \in (i + 1)..Len(file) : ~HasSnapshot(file[j])

LocaleRegexMatch(bundle) ==
    {f \in bundle.files : RegexMatch(f, bundle.default_locale)}

GetDefaultLocaleFile(bundle) ==
    LET locale_regex_match == LocaleRegexMatch(bundle)
    IN  IF Cardinality(locale_regex_match) > 1
        THEN [exit |-> "multiple", file |-> <<>>]
        ELSE IF Cardinality(locale_regex_match) = 0
        THEN [exit |-> "none", file |-> <<>>]
        ELSE [exit |-> "", file |-> CHOOSE f \in locale_regex_match : TRUE]

\* open(path, 'a') and write the lines
AppendFile(d, path, lines) ==
    Put(d, path, (IF path \in DOMAIN d THEN d[path] ELSE <<>>) \o lines)

\* the line 'generating snapshot file ... based on ...' on standard output
Generating(snapshot_file_path, default_locale_path) ==
    <<"generating", snapshot_file_path, default_locale_path>>

SnapshotPath(default_locale_path) == Append(default_locale_path, SnapshotSuffix)

\* generate_snapshot_file without the os.path.exists test: appends on every call
GenerateSnapshotFileAlways(bundle, d) ==
    LET r == GetDefaultLocaleFile(bundle)
        snapshot_file_path == SnapshotPath(r.file)
    IN  IF r.exit # ""
        THEN [exit |-> r.exit, disk |-> d, bundle |-> bundle, path |-> <<>>,
              printed |-> <<>>]
        ELSE [exit |-> "",
              disk |-> AppendFile(d, snapshot_file_path, d[r.file]),
              printed |-> <<Generating(snapshot_file_path, r.file)>>,
              bundle |-> [bundle EXCEPT !.files = @ \cup {snapshot_file_path}],
              path |-> snapshot_file_path]

\* generate_snapshot_file that brings an existing snapshot up to date
GenerateSnapshotFileRefresh(bundle, d) ==
    LET r == GetDefaultLocaleFile(bundle)
        snapshot_file_path == SnapshotPath(r.file)
    IN  IF r.exit # ""
        THEN [exit |-> r.exit, disk |-> d, bundle |-> bundle, path |-> <<>>,
              printed |-> <<>>]
        ELSE [exit |-> "",
              disk |-> Put(d, snapshot_file_path, d[r.file]),
              printed |-> IF snapshot_file_path \notin DOMAIN d
                          THEN <<Generating(snapshot_file_path, r.file)>>
                          ELSE <<>>,
              bundle |-> [bundle EXCEPT !.files = @ \cup {snapshot_file_path}],
              path |-> snapshot_file_path]

\* generate_snapshot_file that creates the snapshot without copying the lines
GenerateSnapshotFileEmpty(bundle, d) ==
    LET r == GetDefaultLocaleFile(bundle)
        snapshot_file_path == SnapshotPath(r.file)
    IN  IF r.exit # ""
        THEN [exit |-> r.exit, disk |-> d, bundle |-> bundle, path |-> <<>>,
              printed |-> <<>>]
        ELSE [exit |-> "",
              disk |-> IF snapshot_file_path \notin DOMAIN d
                       THEN AppendFile(d, snapshot_file_path, <<>>)
                       ELSE d,
              printed |-> IF snapshot_file_path \notin DOMAIN d
                          THEN <<Generating(snapshot_file_path, r.file)>>
                          ELSE <<>>,
              bundle |-> [bundle EXCEPT !.files = @ \cup {snapshot_file_path}],
              path |-> snapshot_file_path]

\* The result of bundle.generate_snapshot_file() on disk d: the exit message if
\* it ends the process, the disk and the bundle after the call, the returned path.
GenerateSnapshotFile(bundle, d) ==
    LET r == GetDefaultLocaleFile(bundle)
        snapshot_file_path == SnapshotPath(r.file)
    IN  IF r.exit # ""
        THEN [exit |-> r.exit, disk |-> d, bundle |-> bundle, path |-> <<>>,
              printed |-> <<>>]
        ELSE [exit |-> "",
              disk |-> IF snapshot_file_path \notin DOMAIN d
                       THEN AppendFile(d, snapshot_file_path, d[r.file])
                       ELSE d,
              printed |-> IF snapshot_file_path \notin DOMAIN d
                          THEN <<Generating(snapshot_file_path, r.file)>>
                          ELSE <<>>,
              bundle |-> [bundle EXCEPT !.files = @ \cup {snapshot_file_path}],
              path |-> snapshot_file_path]

----------------------------------------------------------------------------
(* TranslationGenerator *)

KeyVal(entry) == <<entry[1], entry[2]>>

\* the comparison on key and value instead of key presence
MissingKeysByItem(source_dict, candidate_dict) ==
    LET absent(entry) == entry \notin DictItems(candidate_dict)
        kept == SelectSeq(source_dict, absent)
    IN  [i \in DOMAIN kept |-> KeyVal(kept[i])]

MissingKeys(source_dict, candidate_dict) ==
    LET absent(entry) == entry[1] \notin DictKeys(candidate_dict)
        kept == SelectSeq(source_dict, absent)
    IN  [i \in DOMAIN kept |-> KeyVal(kept[i])]

CheckMissingKeysInOtherLocales(miss, source, bundle) ==
    LET hit == {f \in DOMAIN bundle : MissingKeys(bundle[source], bundle[f]) # <<>>}
    IN  [f \in DOMAIN miss \cup hit |->
            IF f \in hit THEN MissingKeys(bundle[source], bundle[f]) ELSE miss[f]]

\* the comparison on key and value instead of value
NewValuesByItem(source_dict, candidate_dict) ==
    LET fresh(entry) == entry \notin DictItems(source_dict)
        kept == SelectSeq(candidate_dict, fresh)
    IN  [i \in DOMAIN kept |-> kept[i][2]]

\* the comparison on key instead of value
NewValuesByKey(source_dict, candidate_dict) ==
    LET fresh(entry) == entry[1] \notin DictKeys(source_dict)
        kept == SelectSeq(candidate_dict, fresh)
    IN  [i \in DOMAIN kept |-> kept[i][2]]

NewValues(source_dict, candidate_dict) ==
    LET fresh(entry) == entry[2] \notin DictValues(source_dict)
        kept == SelectSeq(candidate_dict, fresh)
    IN  [i \in DOMAIN kept |-> kept[i][2]]

NewEntries(adds, source, candidate, bundle) ==
    IF ~DictEq(bundle[source], bundle[candidate])
    THEN LET new_values == NewValues(bundle[source], bundle[candidate])
         IN  IF new_values # <<>> THEN Put(adds, candidate, new_values) ELSE adds
    ELSE adds

\* process_bundle with the live default-locale file as the source of the
\* missing keys
ProcessBundleLive(bundle, d, adds, miss, jd, pd) ==
    LET jd2 == IF bundle.extension = "json" THEN JsonParser(jd, bundle.files, d) ELSE jd
        pd2 == IF bundle.extension = "properties"
               THEN PropertiesParser(pd, bundle.files, d) ELSE pd
        parsed_bundle == IF bundle.extension = "json" THEN jd2 ELSE pd2
        g == GenerateSnapshotFile(bundle, d)
        r == GetDefaultLocaleFile(g.bundle)
    IN  IF g.exit # "" \/ r.exit # ""
        THEN [exit |-> IF g.exit # "" THEN g.exit ELSE r.exit,
              disk |-> g.disk, bundle |-> g.bundle, printed |-> g.printed,
              additions |-> adds, missing |-> miss, json |-> jd2, properties |-> pd2]
        ELSE [exit |-> "", disk |-> g.disk, bundle |-> g.bundle, printed |-> g.printed,
              additions |-> NewEntries(adds, g.path, r.file, parsed_bundle),
              missing |-> CheckMissingKeysInOtherLocales(miss, r.file, parsed_bundle),
              json |-> jd2, properties |-> pd2]

\* process_bundle after the extension test: the state of the generator, the
\* parsers' class attributes, the bundle and the disk after the call.
ProcessBundle(bundle, d, adds, miss, jd, pd) ==
    LET jd2 == IF bundle.extension = "json" THEN JsonParser(jd, bundle.files, d) ELSE jd
        pd2 == IF bundle.extension = "properties"
               THEN PropertiesParser(pd, bundle.files, d) ELSE pd
        parsed_bundle == IF bundle.extension = "json" THEN jd2 ELSE pd2
        g == GenerateSnapshotFile(bundle, d)
        r == GetDefaultLocaleFile(g.bundle)
        exit == IF bundle.extension \notin Extensions THEN "unsupported"
                ELSE IF g.exit # "" THEN g.exit ELSE r.exit
    IN  IF exit # ""
        THEN [exit |-> exit, disk |-> g.disk, bundle |-> g.bundle, printed |-> g.printed,
              additions |-> adds, missing |-> miss, json |-> jd2, properties |-> pd2]
        ELSE [exit |-> "", disk |-> g.disk, bundle |-> g.bundle, printed |-> g.printed,
              additions |-> NewEntries(adds, g.path, r.file, parsed_bundle),
              missing |-> CheckMissingKeysInOtherLocales(miss, g.path, parsed_bundle),
              json |-> jd2, properties |-> pd2]

----------------------------------------------------------------------------
(* Reconciliator *)

Rank(s) ==
    CASE s = "" -> 0 [] s = "1" -> 1 [] s = "2" -> 2 [] s = "a" -> 3 [] s = "b" -> 4

LessValue(x, y) == Rank(x) < Rank(y)

LessKeyVal(x, y) ==
    \/ Rank(x[1]) < Rank(y[1])
    \/ x[1] = y[1] /\ Rank(x[2]) < Rank(y[2])

SortedValues(strings) == SortSeq(strings, LessValue)

SortedKeyVals(strings) == SortSeq(strings, LessKeyVal)

RECURSIVE Items(_)
Items(S) ==
    IF S = {} THEN <<>>
    ELSE LET x == CHOOSE y \in S : TRUE IN <<x>> \o Items(S \ {x})

\* {locale: strings}
Single(locale, strings) == [f \in {locale} |-> strings]

Get(dt, key) == IF key \in DOMAIN dt THEN dt[key] ELSE <<>>

\* the manifest on standard output (json.dumps or yaml.dump of self.data)
Dump(dt) == <<"manifest", dt>>

\* print_manifest without sorted() on the missing strings
PrintManifestUnsorted(dt, miss, added) ==
    LET alocs == Items(DOMAIN added)
        mlocs == Items(DOMAIN miss)
        alist == Get(dt, "added") \o
                 [i \in DOMAIN alocs |-> Single(alocs[i], SortedValues(added[alocs[i]]))]
        mlist == Get(dt, "missing") \o
                 [i \in DOMAIN mlocs |-> Single(mlocs[i], miss[mlocs[i]])]
        keys == DOMAIN dt \cup (IF alocs # <<>> THEN {"added"} ELSE {})
                          \cup (IF mlocs # <<>> THEN {"missing"} ELSE {})
    IN  [k \in keys |-> IF k = "added" THEN alist ELSE mlist]

\* self.data after the two loops of print_manifest
PrintManifest(dt, miss, added) ==
    LET alocs == Items(DOMAIN added)
        mlocs == Items(DOMAIN miss)
        alist == Get(dt, "added") \o
                 [i \in DOMAIN alocs |-> Single(alocs[i], SortedValues(added[alocs[i]]))]
        mlist == Get(dt, "missing") \o
                 [i \in DOMAIN mlocs |-> Single(mlocs[i], SortedKeyVals(miss[mlocs[i]]))]
        keys == DOMAIN dt \cup (IF alocs # <<>> THEN {"added"} ELSE {})
                          \cup (IF mlocs # <<>> THEN {"missing"} ELSE {})
    IN  [k \in keys |-> IF k = "added" THEN alist ELSE mlist]

----------------------------------------------------------------------------
(* One invocation of the tool: Driver.main *)

File(path, stem, locale, extension) ==
    <<path, stem, LocaleTok(locale), ExtTok(extension)>>

\* Bundler.parse_bundle for every bundle of the configuration
ParseBundles ==
    /\ pc = "start"
    /\ bundles' = [i \in DOMAIN config |->
            Bundle(config[i].path, config[i].extension,
                   {f \in ListDir(disk, config[i].path) : EndsWith(f, config[i].extension)},
                   config[i].default_locale)]
    /\ pc' = "gather"
    /\ idx' = 1
    /\ UNCHANGED <<disk, config, additions, missing, jsonDict, propsDict, data,
                   stdout, exitMsg>>

\* one iteration of the second loop of Bundler.gather
GatherSnapshot ==
    /\ pc = "gather"
    /\ LET g == GenerateSnapshotFile(bundles[idx], disk)
       IN  IF g.exit # ""
           THEN /\ pc' = "exit"
                /\ exitMsg' = g.exit
                /\ UNCHANGED <<disk, bundles, idx, stdout>>
           ELSE /\ disk' = g.disk
                /\ stdout' = stdout \o g.printed
                /\ bundles' = [bundles EXCEPT ![idx] = g.bundle]
                /\ pc' = IF idx = Len(bundles) THEN "process" ELSE "gather"
                /\ idx' = IF idx = Len(bundles) THEN 1 ELSE idx + 1
                /\ UNCHANGED exitMsg
    /\ UNCHANGED <<config, additions, missing, jsonDict, propsDict, data>>

\* one iteration of the loop of TranslationGenerator.generate_all
ProcessStep ==
    /\ pc = "process"
    /\ LET p == ProcessBundle(bundles[idx], disk, additions, missing, jsonDict, propsDict)
       IN  /\ disk' = p.disk
           /\ bundles' = [bundles EXCEPT ![idx] = p.bundle]
           /\ additions' = p.additions
           /\ missing' = p.missing
           /\ jsonDict' = p.json
           /\ propsDict' = p.properties
           /\ exitMsg' = p.exit
           /\ stdout' = stdout \o p.printed
           /\ pc' = IF p.exit # "" THEN "exit"
                    ELSE IF idx = Len(bundles) THEN "print" ELSE "process"
           /\ idx' = IF p.exit = "" /\ idx < Len(bundles) THEN idx + 1 ELSE idx
    /\ UNCHANGED <<config, data>>

\* Reconciliator(options).print_manifest(missing, additions)
PrintStep ==
    /\ pc = "print"
    /\ data' = PrintManifest(data, missing, additions)
    /\ stdout' = IF DOMAIN data' # {} THEN Append(stdout, Dump(data')) ELSE stdout
    /\ pc' = "done"
    /\ UNCHANGED <<disk, config, bundles, idx, additions, missing, jsonDict,
                   propsDict, exitMsg>>

NextRun == ParseBundles \/ GatherSnapshot \/ ProcessStep \/ PrintStep

----------------------------------------------------------------------------
(* Between invocations *)

\* The files a bundle of the configuration takes for default-locale candidates.
DefaultLocaleFiles ==
    {f \in DOMAIN disk : \E i \in DOMAIN config :
        /\ f \in ListDir(disk, config[i].path)
        /\ EndsWith(f, config[i].extension)
        /\ RegexMatch(f, Bundle("", "", {}, config[i].default_locale).default_locale)}

\* the user rewrites a default-locale file before starting the tool
Edit ==
    /\ pc = "start"
    /\ \E f \in DefaultLocaleFiles, text \in DefaultContents :
          /\ disk[f] # text
          /\ disk' = [disk EXCEPT ![f] = text]
    /\ UNCHANGED <<config, pc, bundles, idx, additions, missing, jsonDict,
                   propsDict, data, stdout, exitMsg>>

\* the tool is started again: a new process over the same disk
Invoke ==
    /\ pc \in {"done", "exit"}
    /\ pc' = "start"
    /\ bundles' = <<>>
    /\ idx' = 1
    /\ additions' = <<>>
    /\ missing' = <<>>
    /\ jsonDict' = <<>>
    /\ propsDict' = <<>>
    /\ data' = <<>>
    /\ stdout' = <<>>
    /\ exitMsg' = ""
    /\ UNCHANGED <<disk, config>>

Next == NextRun \/ Edit \/ Invoke

----------------------------------------------------------------------------
(* Initial states *)

Fresh ==
    /\ pc = "start"
    /\ bundles = <<>>
    /\ idx = 1
    /\ additions = <<>>
    /\ missing = <<>>
    /\ jsonDict = <<>>
    /\ propsDict = <<>>
    /\ data = <<>>
    /\ stdout = <<>>
    /\ exitMsg = ""

Conf(path, extension) == [path |-> path, extension |-> extension, default_locale |-> ""]

\* The locale files of a directory: stem and locale of each.
Layouts ==
    {{<<"app", "en_US">>, <<"app", "fr">>},
     {<<"app", "fr">>},
     {<<"app", "en_US">>, <<"snapshot", "en_US">>},
     {<<"snapshot", "en_US">>, <<"app", "fr">>}}

\* A directory with the files of `layout`: the (first) en_US file holds `text`,
\* the other locale `other`, a second en_US file is empty.
Dir(path, extension, layout, text, other) ==
    [f \in {File(path, n[1], n[2], extension) : n \in layout} |->
        IF f[3] # LocaleTok("en_US") THEN other
        ELSE IF f[2] = "app" \/ <<"app", "en_US">> \notin layout THEN text
        ELSE <<>>]

\* A fresh checkout: one or two bundles, no snapshot yet.
Init ==
    /\ Fresh
    /\ \E e1 \in Extensions, layout \in Layouts, t1 \in DefaultContents,
          o1 \in {<<>>, <<<<"a", "1">>>>} :
          LET d1 == Dir("d1", e1, layout, t1, o1)
          IN  \/ /\ config = <<Conf("d1", e1)>>
                 /\ disk = d1
              \/ \E e2 \in Extensions, t2 \in DefaultContents :
                    /\ layout = {<<"app", "en_US">>, <<"app", "fr">>}
                    /\ config = <<Conf("d1", e1), Conf("d2", e2)>>
                    /\ disk = d1 @@ Dir("d2", e2, layout, t2, <<>>)

Spec == Init /\ [][Next]_vars

\* One bundle with an arbitrary default-locale file, other locale and snapshot
\* (absent, or left by an earlier run).
InitRun ==
    /\ Fresh
    /\ \E e \in Extensions, text \in Contents, other \in LocaleContents :
          LET d == Dir("d1", e, {<<"app", "en_US">>, <<"app", "fr">>}, text, other)
              snap == SnapshotPath(File("d1", "app", "en_US", e))
          IN  /\ config = <<Conf("d1", e)>>
              /\ \/ disk = d
                 \/ \E s \in Contents : disk = d @@ (snap :> s)

SpecRun == InitRun /\ [][NextRun]_vars

----------------------------------------------------------------------------
(* Properties *)

Range(s) == {s[i] : i \in DOMAIN s}

Count(s, x) == Cardinality({i \in DOMAIN s : s[i] = x})

Recorded(m, f) == IF f \in DOMAIN m THEN m[f] ELSE <<>>

Val(d, k) == (CHOOSE e \in DictItems(d) : e[1] = k)[2]

\* the entry mapping of file f of bundle b, from the disk
Parsed(b, f) ==
    IF b.extension = "json" THEN JsonLoads(disk[f]) ELSE PropertiesLoad(disk[f])

DefaultOf(b) == GetDefaultLocaleFile(b).file

SnapshotOf(b) == SnapshotPath(DefaultOf(b))

OtherLocales(b) == b.files \ {DefaultOf(b), SnapshotOf(b)}

\* process_bundle has just returned for bundle i
JustProcessed(i) ==
    \/ pc = "process" /\ idx = i + 1
    \/ pc = "print" /\ i = Len(bundles)

\* this run created the snapshot of bundle b
CreatedNow(b) == Generating(SnapshotOf(b), DefaultOf(b)) \in Range(stdout)

IsSnapshot(f) == f[Len(f)] = SnapshotSuffix

\* C6: new_entries records an additions entry for the default-locale file iff
\* some value of the current mapping is not a value of the snapshot; the
\* recorded strings are exactly the values of the current mapping that are not
\* snapshot values, so a key renamed with its value unchanged is not reported.
C6_Additions ==
    \A i \in DOMAIN bundles : JustProcessed(i) =>
        LET b == bundles[i]
            c == DefaultOf(b)
            S == Parsed(b, SnapshotOf(b))
            C == Parsed(b, c)
        IN  /\ c \in DOMAIN additions <=> \E v \in DictValues(C) : v \notin DictValues(S)
            /\ Range(Recorded(additions, c)) = DictValues(C) \ DictValues(S)

C6_Witness ==
    \E i \in DOMAIN bundles :
        /\ JustProcessed(i)
        /\ LET b == bundles[i]
               S == Parsed(b, SnapshotOf(b))
               C == Parsed(b, DefaultOf(b))
           IN  /\ DefaultOf(b) \in DOMAIN additions
               /\ \E e \in DictItems(C) :
                     e[1] \notin DictKeys(S) /\ e[2] \in DictValues(S)

\* C10 as claimed: every key present in snapshot and current mapping with a
\* changed value has its current value among the additions.
C10_Claim ==
    \A i \in DOMAIN bundles : JustProcessed(i) =>
        LET b == bundles[i]
            S == Parsed(b, SnapshotOf(b))
            C == Parsed(b, DefaultOf(b))
        IN  \A k \in DictKeys(S) \cap DictKeys(C) :
                Val(C, k) # Val(S, k) =>
                    Val(C, k) \in Range(Recorded(additions, DefaultOf(b)))

\* C10 amended: a changed value under an existing key is among the additions
\* when it is not the value of any snapshot entry.
C10_ChangedValue ==
    \A i \in DOMAIN bundles : JustProcessed(i) =>
        LET b == bundles[i]
            S == Parsed(b, SnapshotOf(b))
            C == Parsed(b, DefaultOf(b))
        IN  \A k \in DictKeys(S) \cap DictKeys(C) :
                (Val(C, k) # Val(S, k) /\ Val(C, k) \notin DictValues(S)) =>
                    Val(C, k) \in Range(Recorded(additions, DefaultOf(b)))

C10_Witness ==
    \E i \in DOMAIN bundles :
        /\ JustProcessed(i)
        /\ LET b == bundles[i]
               S == Parsed(b, SnapshotOf(b))
               C == Parsed(b, DefaultOf(b))
           IN  \E k \in DictKeys(S) \cap DictKeys(C) :
                   Val(C, k) # Val(S, k) /\ Val(C, k) \notin DictValues(S)

\* C7: the missing entry of a file of the bundle exists iff some snapshot key is
\* not a key of the file, whatever the values; it lists exactly the snapshot's
\* entries for those keys; the snapshot file gets none.
C7_Missing ==
    \A i \in DOMAIN bundles : JustProcessed(i) =>
        LET b == bundles[i]
            S == Parsed(b, SnapshotOf(b))
        IN  /\ SnapshotOf(b) \notin DOMAIN missing
            /\ \A f \in b.files :
                  LET F == Parsed(b, f)
                      absent == {e \in DictItems(S) : e[1] \notin DictKeys(F)}
                  IN  /\ f \in DOMAIN missing <=> ~(DictKeys(S) \subseteq DictKeys(F))
                      /\ Range(Recorded(missing, f)) = {KeyVal(e) : e \in absent}
                      /\ Len(Recorded(missing, f)) = Cardinality(absent)

C7_Witness ==
    \E i \in DOMAIN bundles :
        /\ JustProcessed(i)
        /\ LET b == bundles[i]
               S == Parsed(b, SnapshotOf(b))
           IN  /\ \E g \in b.files : g \in DOMAIN missing
               /\ \E f \in b.files, k \in DictKeys(S) :
                     /\ f \notin DOMAIN missing
                     /\ Val(Parsed(b, f), k) # Val(S, k)

\* the entries of the current default-locale mapping whose key and value are
\* both new with respect to the snapshot
Gained(S, C) ==
    {e \in DictItems(C) : e[1] \notin DictKeys(S) /\ e[2] \notin DictValues(S)}

\* C2 as claimed: with an existing snapshot and a gained entry k: v, the run
\* records v in additions and "k: v" in missing for every other locale file
\* lacking k.
C2_Claim ==
    \A i \in DOMAIN bundles : (JustProcessed(i) /\ ~CreatedNow(bundles[i])) =>
        LET b == bundles[i]
            S == Parsed(b, SnapshotOf(b))
            C == Parsed(b, DefaultOf(b))
        IN  \A e \in Gained(S, C) :
                /\ e[2] \in Range(Recorded(additions, DefaultOf(b)))
                /\ \A f \in OtherLocales(b) :
                      e[1] \notin DictKeys(Parsed(b, f)) =>
                          KeyVal(e) \in Range(Recorded(missing, f))

\* C2 amended: the run records v in additions, and the comparison with the
\* snapshot records "k: v" in missing for no file of the bundle, k being no key
\* of the snapshot.
C2_Amended ==
    \A i \in DOMAIN bundles : (JustProcessed(i) /\ ~CreatedNow(bundles[i])) =>
        LET b == bundles[i]
            S == Parsed(b, SnapshotOf(b))
            C == Parsed(b, DefaultOf(b))
        IN  \A e \in Gained(S, C) :
                /\ e[2] \in Range(Recorded(additions, DefaultOf(b)))
                /\ \A f \in b.files : KeyVal(e) \notin Range(Recorded(missing, f))

C2_Witness ==
    \E i \in DOMAIN bundles :
        /\ JustProcessed(i)
        /\ ~CreatedNow(bundles[i])
        /\ LET b == bundles[i]
               S == Parsed(b, SnapshotOf(b))
               C == Parsed(b, DefaultOf(b))
           IN  \E e \in Gained(S, C), f \in OtherLocales(b) :
                   /\ e[1] \notin DictKeys(Parsed(b, f))
                   /\ f \in DOMAIN missing

\* C4: for a bundle with exactly one default-locale file, a second call of
\* generate_snapshot_file right after a first returns the same path and leaves
\* the disk (so the snapshot's content) and the bundle's file set as the first
\* call left them, writing and logging nothing; the first call's snapshot is the
\* one already there, or a copy of the default-locale file.
C4_Idempotent ==
    \A i \in DOMAIN bundles :
        Cardinality(LocaleRegexMatch(bundles[i])) = 1 =>
            LET r1 == GenerateSnapshotFile(bundles[i], disk)
                r2 == GenerateSnapshotFile(r1.bundle, r1.disk)
            IN  /\ r1.exit = "" /\ r2.exit = ""
                /\ r2.path = r1.path
                /\ r2.disk = r1.disk
                /\ r2.bundle.files = r1.bundle.files
                /\ r2.printed = <<>>
                /\ r1.disk[r1.path] = IF r1.path \in DOMAIN disk THEN disk[r1.path]
                                      ELSE disk[DefaultOf(bundles[i])]
                /\ r1.printed # <<>> <=> r1.path \notin DOMAIN disk

C4_Witness ==
    /\ pc = "gather"
    /\ \E i \in DOMAIN bundles :
          /\ Cardinality(LocaleRegexMatch(bundles[i])) = 1
          /\ SnapshotOf(bundles[i]) \notin DOMAIN disk
          /\ disk[DefaultOf(bundles[i])] # <<>>

C5_SnapshotFrozen ==
    [][/\ \A f \in DOMAIN disk :
             IsSnapshot(f) => f \in DOMAIN disk' /\ disk'[f] = disk[f]
       /\ \A f \in DOMAIN disk' \ DOMAIN disk :
             IsSnapshot(f) => disk'[f] = disk[SubSeq(f, 1, Len(f) - 1)]]_vars

\* a later run has finished over a snapshot that differs from the edited file
C5_Witness ==
    /\ pc = "done"
    /\ \E i \in DOMAIN bundles :
          /\ ~CreatedNow(bundles[i])
          /\ disk[SnapshotOf(bundles[i])] # disk[DefaultOf(bundles[i])]

\* s is t in nondecreasing order
IsSorted(s, t, keyvals) ==
    /\ Len(s) = Len(t)
    /\ \A x \in Range(s) \cup Range(t) : Count(s, x) = Count(t, x)
    /\ \A i \in 1..(Len(s) - 1) :
          ~(IF keyvals THEN LessKeyVal(s[i + 1], s[i]) ELSE LessValue(s[i + 1], s[i]))

\* list holds one single-key mapping {file: sorted m[file]} per file of m
OnePerFile(list, m, keyvals) ==
    /\ Len(list) = Cardinality(DOMAIN m)
    /\ \A f \in DOMAIN m :
          \E i \in DOMAIN list :
              DOMAIN list[i] = {f} /\ IsSorted(list[i][f], m[f], keyvals)

\* C9: after print_manifest, "added" (resp. "missing") is a key of the manifest
\* iff the accumulated additions (resp. missing) mapping is non-empty, it holds
\* one single-key mapping {file: sorted strings} per recorded file, and the
\* manifest is printed iff it is not empty.
C9_Manifest ==
    pc = "done" =>
        /\ DOMAIN data \subseteq {"added", "missing"}
        /\ "added" \in DOMAIN data <=> DOMAIN additions # {}
        /\ "missing" \in DOMAIN data <=> DOMAIN missing # {}
        /\ "added" \in DOMAIN data => OnePerFile(data["added"], additions, FALSE)
        /\ "missing" \in DOMAIN data => OnePerFile(data["missing"], missing, TRUE)
        /\ Dump(data) \in Range(stdout) <=> DOMAIN data # {}
        /\ \A line \in Range(stdout) : line[1] = "manifest" => line = Dump(data)

C9_Witness ==
    /\ pc = "done"
    /\ \E f, g \in DOMAIN additions : f[1] # g[1]
    /\ \E f, g \in DOMAIN missing : f[1] # g[1]
    /\ \E f \in DOMAIN missing : SortedKeyVals(missing[f]) # missing[f]

\* C1 as claimed: when a bundle has just been processed, the parsed mapping
\* handed to the engine has exactly the bundle's files for keys, and every
\* missing entry is for a file of a bundle processed so far and is that file's
\* comparison with its own bundle's snapshot.
C1_Claim ==
    \A i \in DOMAIN bundles : JustProcessed(i) =>
        /\ DOMAIN (IF bundles[i].extension = "json" THEN jsonDict ELSE propsDict)
              = bundles[i].files
        /\ \A f \in DOMAIN missing :
              \E j \in 1..i :
                  /\ f \in bundles[j].files
                  /\ missing[f] = MissingKeys(Parsed(bundles[j], SnapshotOf(bundles[j])),
                                              Parsed(bundles[j], f))

\* the files the claim takes for default-locale candidates
ClaimedCandidates(b) ==
    {f \in b.files :
        /\ \E i \in DOMAIN f : f[i] = LocaleTok(b.default_locale)
        /\ \A j \in DOMAIN f : ~HasSnapshot(f[j])}

\* C3 as claimed: get_default_locale_file ends in the 'no default locale file'
\* error, the 'ambiguous' error or the single candidate according to the number
\* of files that contain _<default_locale> and contain snapshot nowhere.
C3_Claim ==
    \A i \in DOMAIN bundles :
        LET candidates == ClaimedCandidates(bundles[i])
            r == GetDefaultLocaleFile(bundles[i])
        IN  /\ Cardinality(candidates) = 0 => r.exit = "none"
            /\ Cardinality(candidates) > 1 => r.exit = "multiple"
            /\ Cardinality(candidates) = 1 => r.exit = "" /\ r.file \in candidates

====
